---- MODULE Spec2Model ----
(***************************************************************************)
(* CalendlyApp (src/src/universal_mcp_calendly/app.py): a client whose 42  *)
(* public operations each validate their required path parameters, build   *)
(* one request, hand it to the transport of the APIApplication base class  *)
(* (self._get / self._post / self._delete), call                           *)
(* response.raise_for_status() and return response.json().                 *)
(*                                                                         *)
(* An invocation is split at its only blocking point, the transport call:  *)
(* the operation's action runs the body up to and including the send, and  *)
(* Respond / TransportFails run the rest of the body once the transport    *)
(* has answered.  Return hands the outcome to the caller and frees the     *)
(* invocation.                                                             *)
(***************************************************************************)
EXTENDS Integers, Sequences, FiniteSets, TLC

VARIABLES
    base_url,   \* self.base_url
    pc,         \* pc[c]: "idle", "awaiting" (inside the transport call), "done"
    op,         \* op[c]: name of the operation invocation c runs
    args,       \* args[c]: the arguments c was called with
    wire,       \* wire[c]: the requests c handed to the transport, in order
    reply,      \* reply[c]: the responses the transport gave c (a set of 0 or 1)
    outcome     \* outcome[c]: how the call ended (return value or exception)

vars == << base_url, pc, op, args, wire, reply, outcome >>

\* ------------------------------------------------------------------ bounds

\* Largest number of optional parameters a caller supplies in one call.
MaxSupplied == 2

\* ------------------------------------------------------------ Python values

\* A Python value is <<type, str(value)>>.
None == << "NoneType", "None" >>

\* Values a caller passes: the falsy-but-present False, 0 and '' and an
\* ordinary identifier.
Present ==
    { << "bool", "False" >>, << "int", "0" >>, << "str", "" >>,
      << "str", "abc-123" >> }

Values == Present \cup { None }

\* Values a caller supplies for an optional parameter: the present values the
\* filters must not mistake for an absent one.
Supplied == { << "bool", "False" >>, << "int", "0" >>, << "str", "" >> }

\* str(v), as the f-string f"{v}" formats it.
Str(v) == v[2]

\* dict(pairs): a later pair overrides an earlier one with the same key.
Dict(pairs) ==
    [ k \in { pairs[i][1] : i \in DOMAIN pairs } |->
        LET last == CHOOSE i \in DOMAIN pairs :
                        /\ pairs[i][1] = k
                        /\ \A j \in DOMAIN pairs : pairs[j][1] = k => j <= i
        IN  pairs[last][2] ]

\* Variant: the comprehension has no filter.
IsNotNone_unfiltered(p) == TRUE

\* Variant: the comprehension tests truthiness (if v) instead of (if v is not None).
IsNotNone_truthy(p) ==
    p[2] \notin { None, << "bool", "False" >>, << "int", "0" >>, << "str", "" >> }

\* v is not None, for the pair (k, v)
IsNotNone(p) == p[2] # None

\* {k: v for k, v in [pairs] if v is not None}
DictComp(pairs) == Dict(SelectSeq(pairs, IsNotNone))

\* {k: v for k, v in d.items() if v is not None}
NotNone(d) == [ k \in { x \in DOMAIN d : d[x] # None } |-> d[k] ]

\* The keyword arguments of a call: every optional parameter defaults to
\* None, and the caller supplies at most MaxSupplied of them.
Kwargs(names) ==
    UNION { { [ n \in names |-> IF n \in S THEN f[n] ELSE None ] :
                f \in [ S -> Supplied ] } :
            S \in { T \in SUBSET names : Cardinality(T) <= MaxSupplied } }

\* ------------------------------------------------- transport (base class)

\* The request self._get(url, params=...) hands to the HTTP client.
_get(url, params) ==
    [ method |-> "GET", url |-> url, params |-> params, body |-> {} ]

\* The request self._delete(url, params=...) hands to the HTTP client.
_delete(url, params) ==
    [ method |-> "DELETE", url |-> url, params |-> params, body |-> {} ]

\* The request self._post(url, data=..., params=...) hands to the HTTP client.
_post(url, data, params) ==
    [ method |-> "POST", url |-> url, params |-> params, body |-> { data } ]

\* raise ValueError(msg)
ValueError(msg) == [ kind |-> "ValueError", msg |-> msg ]

IsRequest(r) == "method" \in DOMAIN r

\* Status codes the transport answers with.
Statuses == { 199, 200, 204, 299, 300, 404, 500 }

\* JSON texts and the documents they decode to.
JsonTexts ==
    { << "{}", << >> >>,
      << "{\"message\":\"not found\"}", [ message |-> "not found" ] >>,
      << "{\"resource\":\"evt\"}", [ resource |-> "evt" ] >>,
      << "{\"collection\":\"[]\",\"next_page_token\":\"tok2\"}",
         [ collection |-> "[]", next_page_token |-> "tok2" ] >> }

\* Response bodies the transport answers with: JSON texts, the empty body
\* and a body that is not JSON.
Texts == { t[1] : t \in JsonTexts } \cup { "", "<html>" }

\* The bodies that come with a status outside 2xx: an error document, an
\* error page, nothing.
ErrorTexts == { "{\"message\":\"not found\"}", "<html>", "" }

\* The responses the transport answers with: any body with a 2xx status, an
\* error body with any other status.
Responses ==
    { r \in [ status_code : Statuses, text : Texts ] :
        (r.status_code >= 200 /\ r.status_code <= 299) \/ r.text \in ErrorTexts }

\* Variant: only 4xx and 5xx statuses raise.
raise_for_status_4xx5xx(response) ==
    IF response.status_code >= 400
    THEN { [ kind |-> "HTTPStatusError", response |-> response ] }
    ELSE {}

\* response.raise_for_status(): the exception it raises, if any.
raise_for_status(response) ==
    IF response.status_code >= 200 /\ response.status_code <= 299
    THEN {}
    ELSE { [ kind |-> "HTTPStatusError", response |-> response ] }

\* response.json(): the decoded body, or the decoder's exception.
json(response) ==
    IF \E t \in JsonTexts : t[1] = response.text
    THEN [ kind |-> "return",
           value |-> (CHOOSE t \in JsonTexts : t[1] = response.text)[2] ]
    ELSE [ kind |-> "JSONDecodeError", text |-> response.text ]

\* --------------------------------------------------------------- the calls

NoArgs == [ pos |-> << >>, kw |-> << >> ]
NoOutcome == [ kind |-> "none" ]

\* One client, one invocation at a time.
Callers == { 1 }

\* CalendlyApp.__init__
Init ==
    /\ base_url = "https://api.calendly.com"
    /\ pc = [ c \in Callers |-> "idle" ]
    /\ op = [ c \in Callers |-> "" ]
    /\ args = [ c \in Callers |-> NoArgs ]
    /\ wire = [ c \in Callers |-> << >> ]
    /\ reply = [ c \in Callers |-> {} ]
    /\ outcome = [ c \in Callers |-> NoOutcome ]

\* Variant: the request is kept in a buffer every invocation in flight shares.
Invoke_shared(c, name, pos, kw, r) ==
    /\ pc[c] = "idle"
    /\ op' = [ op EXCEPT ![c] = name ]
    /\ args' = [ args EXCEPT ![c] = [ pos |-> pos, kw |-> kw ] ]
    /\ IF IsRequest(r)
       THEN /\ wire' = [ d \in DOMAIN wire |->
                          IF d = c THEN Append(wire[d], r)
                          ELSE IF pc[d] = "awaiting" THEN << r >>
                          ELSE wire[d] ]
            /\ pc' = [ pc EXCEPT ![c] = "awaiting" ]
            /\ outcome' = outcome
       ELSE /\ wire' = wire
            /\ pc' = [ pc EXCEPT ![c] = "done" ]
            /\ outcome' = [ outcome EXCEPT ![c] = r ]
    /\ UNCHANGED << base_url, reply >>

\* Variant: the URL built becomes the client's base_url.
Invoke_rebase(c, name, pos, kw, r) ==
    /\ pc[c] = "idle"
    /\ op' = [ op EXCEPT ![c] = name ]
    /\ args' = [ args EXCEPT ![c] = [ pos |-> pos, kw |-> kw ] ]
    /\ IF IsRequest(r)
       THEN /\ wire' = [ wire EXCEPT ![c] = Append(@, r) ]
            /\ pc' = [ pc EXCEPT ![c] = "awaiting" ]
            /\ outcome' = outcome
            /\ base_url' = r.url
       ELSE /\ wire' = wire
            /\ pc' = [ pc EXCEPT ![c] = "done" ]
            /\ outcome' = [ outcome EXCEPT ![c] = r ]
            /\ base_url' = base_url
    /\ UNCHANGED reply

\* The body of an operation up to its transport call: r is either the
\* ValueError a required-parameter check raised or the request built.
Invoke(c, name, pos, kw, r) ==
    /\ pc[c] = "idle"
    /\ op' = [ op EXCEPT ![c] = name ]
    /\ args' = [ args EXCEPT ![c] = [ pos |-> pos, kw |-> kw ] ]
    /\ IF IsRequest(r)
       THEN /\ wire' = [ wire EXCEPT ![c] = Append(@, r) ]
            /\ pc' = [ pc EXCEPT ![c] = "awaiting" ]
            /\ outcome' = outcome
       ELSE /\ wire' = wire
            /\ pc' = [ pc EXCEPT ![c] = "done" ]
            /\ outcome' = [ outcome EXCEPT ![c] = r ]
    /\ UNCHANGED << base_url, reply >>

\* ---------------------------------------------------------- the operations

\* app.py 22-62: list_event_invitees(uuid, status=None, sort=None, email=None, page_token=None, count=None)
list_event_invitees(c) ==
    /\ pc[c] = "idle"
    /\ \E uuid \in Values, kw \in Kwargs({"status", "sort", "email", "page_token", "count"}) :
           LET url          == base_url \o "/scheduled_events/" \o Str(uuid) \o "/invitees"
               query_params == DictComp(<< <<"status", kw.status>>, <<"sort", kw.sort>>, <<"email", kw.email>>, <<"page_token", kw.page_token>>, <<"count", kw.count>> >>)
           IN  Invoke(c, "list_event_invitees", << uuid >>, kw,
                      IF uuid = None THEN ValueError("Missing required parameter 'uuid'")
                      ELSE _get(url, query_params))

\* Variant: the path lacks the slash before the identifier.
get_event_noslash(c) ==
    /\ pc[c] = "idle"
    /\ \E uuid \in Values :
           LET url          == base_url \o "/scheduled_events" \o Str(uuid)
               query_params == Dict(<< >>)
           IN  Invoke(c, "get_event", << uuid >>, Dict(<< >>),
                      IF uuid = None THEN ValueError("Missing required parameter 'uuid'")
                      ELSE _get(url, query_params))

\* app.py 64-87: get_event(uuid)
get_event(c) ==
    /\ pc[c] = "idle"
    /\ \E uuid \in Values :
           LET url          == base_url \o "/scheduled_events/" \o Str(uuid)
               query_params == Dict(<< >>)
           IN  Invoke(c, "get_event", << uuid >>, Dict(<< >>),
                      IF uuid = None THEN ValueError("Missing required parameter 'uuid'")
                      ELSE _get(url, query_params))

\* Variant: the check of invitee_uuid is missing.
get_event_invitee_unchecked(c) ==
    /\ pc[c] = "idle"
    /\ \E event_uuid, invitee_uuid \in Values :
           LET url          == base_url \o "/scheduled_events/" \o Str(event_uuid) \o "/invitees/" \o Str(invitee_uuid)
               query_params == Dict(<< >>)
           IN  Invoke(c, "get_event_invitee", << event_uuid, invitee_uuid >>, Dict(<< >>),
                      IF event_uuid = None THEN ValueError("Missing required parameter 'event_uuid'")
                      ELSE _get(url, query_params))

\* Variant: the two identifiers fill the other one's place in the path.
get_event_invitee_swapped(c) ==
    /\ pc[c] = "idle"
    /\ \E event_uuid, invitee_uuid \in Values :
           LET url          == base_url \o "/scheduled_events/" \o Str(invitee_uuid) \o "/invitees/" \o Str(event_uuid)
               query_params == Dict(<< >>)
           IN  Invoke(c, "get_event_invitee", << event_uuid, invitee_uuid >>, Dict(<< >>),
                      IF event_uuid = None THEN ValueError("Missing required parameter 'event_uuid'")
                      ELSE IF invitee_uuid = None THEN ValueError("Missing required parameter 'invitee_uuid'")
                      ELSE _get(url, query_params))

\* app.py 89-114: get_event_invitee(event_uuid, invitee_uuid)
get_event_invitee(c) ==
    /\ pc[c] = "idle"
    /\ \E event_uuid, invitee_uuid \in Values :
           LET url          == base_url \o "/scheduled_events/" \o Str(event_uuid) \o "/invitees/" \o Str(invitee_uuid)
               query_params == Dict(<< >>)
           IN  Invoke(c, "get_event_invitee", << event_uuid, invitee_uuid >>, Dict(<< >>),
                      IF event_uuid = None THEN ValueError("Missing required parameter 'event_uuid'")
                      ELSE IF invitee_uuid = None THEN ValueError("Missing required parameter 'invitee_uuid'")
                      ELSE _get(url, query_params))

\* Variant: status and sort are paired with each other's value.
list_events_swapped(c) ==
    /\ pc[c] = "idle"
    /\ \E kw \in Kwargs({"user", "organization", "invitee_email", "status", "sort", "min_start_time", "max_start_time", "page_token", "count", "group"}) :
           LET url          == base_url \o "/scheduled_events"
               query_params == DictComp(<< <<"user", kw.user>>, <<"organization", kw.organization>>, <<"invitee_email", kw.invitee_email>>, <<"status", kw.sort>>, <<"sort", kw.status>>, <<"min_start_time", kw.min_start_time>>, <<"max_start_time", kw.max_start_time>>, <<"page_token", kw.page_token>>, <<"count", kw.count>>, <<"group", kw.group>> >>)
           IN  Invoke(c, "list_events", <<  >>, kw,
                      _get(url, query_params))

\* app.py 116-172: list_events(user=None, organization=None, invitee_email=None, status=None, sort=None, min_start_time=None, max_start_time=None, page_token=None, count=None, group=None)
list_events(c) ==
    /\ pc[c] = "idle"
    /\ \E kw \in Kwargs({"user", "organization", "invitee_email", "status", "sort", "min_start_time", "max_start_time", "page_token", "count", "group"}) :
           LET url          == base_url \o "/scheduled_events"
               query_params == DictComp(<< <<"user", kw.user>>, <<"organization", kw.organization>>, <<"invitee_email", kw.invitee_email>>, <<"status", kw.status>>, <<"sort", kw.sort>>, <<"min_start_time", kw.min_start_time>>, <<"max_start_time", kw.max_start_time>>, <<"page_token", kw.page_token>>, <<"count", kw.count>>, <<"group", kw.group>> >>)
           IN  Invoke(c, "list_events", <<  >>, kw,
                      _get(url, query_params))

\* Variant: the check is "if not uuid", which also rejects "", 0 and False.
get_event_type_falsy(c) ==
    /\ pc[c] = "idle"
    /\ \E uuid \in Values :
           LET url          == base_url \o "/event_types/" \o Str(uuid)
               query_params == Dict(<< >>)
           IN  Invoke(c, "get_event_type", << uuid >>, Dict(<< >>),
                      IF uuid \in { None, << "str", "" >>, << "int", "0" >>, << "bool", "False" >> } THEN ValueError("Missing required parameter 'uuid'")
                      ELSE _get(url, query_params))

\* app.py 174-197: get_event_type(uuid)
get_event_type(c) ==
    /\ pc[c] = "idle"
    /\ \E uuid \in Values :
           LET url          == base_url \o "/event_types/" \o Str(uuid)
               query_params == Dict(<< >>)
           IN  Invoke(c, "get_event_type", << uuid >>, Dict(<< >>),
                      IF uuid = None THEN ValueError("Missing required parameter 'uuid'")
                      ELSE _get(url, query_params))

\* app.py 199-249: list_user_sevent_types(active=None, organization=None, user=None, user_availability_schedule=None, sort=None, admin_managed=None, page_token=None, count=None)
list_user_sevent_types(c) ==
    /\ pc[c] = "idle"
    /\ \E kw \in Kwargs({"active", "organization", "user", "user_availability_schedule", "sort", "admin_managed", "page_token", "count"}) :
           LET url          == base_url \o "/event_types"
               query_params == DictComp(<< <<"active", kw.active>>, <<"organization", kw.organization>>, <<"user", kw.user>>, <<"user_availability_schedule", kw.user_availability_schedule>>, <<"sort", kw.sort>>, <<"admin_managed", kw.admin_managed>>, <<"page_token", kw.page_token>>, <<"count", kw.count>> >>)
           IN  Invoke(c, "list_user_sevent_types", <<  >>, kw,
                      _get(url, query_params))

\* Variant: an empty uuid is answered with the request of get_current_user.
get_user_current(c) ==
    /\ pc[c] = "idle"
    /\ \E uuid \in Values :
           LET url          == IF uuid = << "str", "" >> THEN base_url \o "/users/me"
                               ELSE base_url \o "/users/" \o Str(uuid)
               query_params == Dict(<< >>)
           IN  Invoke(c, "get_user", << uuid >>, Dict(<< >>),
                      IF uuid = None THEN ValueError("Missing required parameter 'uuid'")
                      ELSE _get(url, query_params))

\* app.py 251-274: get_user(uuid)
get_user(c) ==
    /\ pc[c] = "idle"
    /\ \E uuid \in Values :
           LET url          == base_url \o "/users/" \o Str(uuid)
               query_params == Dict(<< >>)
           IN  Invoke(c, "get_user", << uuid >>, Dict(<< >>),
                      IF uuid = None THEN ValueError("Missing required parameter 'uuid'")
                      ELSE _get(url, query_params))

\* app.py 276-295: get_current_user()
get_current_user(c) ==
    /\ pc[c] = "idle"
    /\ LET url          == base_url \o "/users/me"
           query_params == Dict(<< >>)
       IN  Invoke(c, "get_current_user", <<  >>, Dict(<< >>),
                  _get(url, query_params))

\* app.py 297-337: list_organization_invitations(uuid, count=None, page_token=None, sort=None, email=None, status=None)
list_organization_invitations(c) ==
    /\ pc[c] = "idle"
    /\ \E uuid \in Values, kw \in Kwargs({"count", "page_token", "sort", "email", "status"}) :
           LET url          == base_url \o "/organizations/" \o Str(uuid) \o "/invitations"
               query_params == DictComp(<< <<"count", kw.count>>, <<"page_token", kw.page_token>>, <<"sort", kw.sort>>, <<"email", kw.email>>, <<"status", kw.status>> >>)
           IN  Invoke(c, "list_organization_invitations", << uuid >>, kw,
                      IF uuid = None THEN ValueError("Missing required parameter 'uuid'")
                      ELSE _get(url, query_params))

\* Variant: the body and the query map change places in the call.
invite_user_to_organization_query(c) ==
    /\ pc[c] = "idle"
    /\ \E uuid \in Values, kw \in Kwargs({"email"}) :
           LET request_body0 == Dict(<< <<"email", kw.email>> >>)
               request_body  == NotNone(request_body0)
               url           == base_url \o "/organizations/" \o Str(uuid) \o "/invitations"
               query_params  == Dict(<< >>)
           IN  Invoke(c, "invite_user_to_organization", << uuid >>, kw,
                      IF uuid = None THEN ValueError("Missing required parameter 'uuid'")
                      ELSE _post(url, query_params, request_body))

\* app.py 339-367: invite_user_to_organization(uuid, email=None)
invite_user_to_organization(c) ==
    /\ pc[c] = "idle"
    /\ \E uuid \in Values, kw \in Kwargs({"email"}) :
           LET request_body0 == Dict(<< <<"email", kw.email>> >>)
               request_body  == NotNone(request_body0)
               url           == base_url \o "/organizations/" \o Str(uuid) \o "/invitations"
               query_params  == Dict(<< >>)
           IN  Invoke(c, "invite_user_to_organization", << uuid >>, kw,
                      IF uuid = None THEN ValueError("Missing required parameter 'uuid'")
                      ELSE _post(url, request_body, query_params))

\* Variant: uuid is checked before org_uuid.
get_organization_invitation_reversed(c) ==
    /\ pc[c] = "idle"
    /\ \E org_uuid, uuid \in Values :
           LET url          == base_url \o "/organizations/" \o Str(org_uuid) \o "/invitations/" \o Str(uuid)
               query_params == Dict(<< >>)
           IN  Invoke(c, "get_organization_invitation", << org_uuid, uuid >>, Dict(<< >>),
                      IF uuid = None THEN ValueError("Missing required parameter 'uuid'")
                      ELSE IF org_uuid = None THEN ValueError("Missing required parameter 'org_uuid'")
                      ELSE _get(url, query_params))

\* app.py 369-394: get_organization_invitation(org_uuid, uuid)
get_organization_invitation(c) ==
    /\ pc[c] = "idle"
    /\ \E org_uuid, uuid \in Values :
           LET url          == base_url \o "/organizations/" \o Str(org_uuid) \o "/invitations/" \o Str(uuid)
               query_params == Dict(<< >>)
           IN  Invoke(c, "get_organization_invitation", << org_uuid, uuid >>, Dict(<< >>),
                      IF org_uuid = None THEN ValueError("Missing required parameter 'org_uuid'")
                      ELSE IF uuid = None THEN ValueError("Missing required parameter 'uuid'")
                      ELSE _get(url, query_params))

\* Variant: the request goes through self._get, as in get_organization_invitation.
revoke_user_sorganization_invitation_get(c) ==
    /\ pc[c] = "idle"
    /\ \E org_uuid, uuid \in Values :
           LET url          == base_url \o "/organizations/" \o Str(org_uuid) \o "/invitations/" \o Str(uuid)
               query_params == Dict(<< >>)
           IN  Invoke(c, "revoke_user_sorganization_invitation", << org_uuid, uuid >>, Dict(<< >>),
                      IF org_uuid = None THEN ValueError("Missing required parameter 'org_uuid'")
                      ELSE IF uuid = None THEN ValueError("Missing required parameter 'uuid'")
                      ELSE _get(url, query_params))

\* app.py 396-422: revoke_user_sorganization_invitation(org_uuid, uuid)
revoke_user_sorganization_invitation(c) ==
    /\ pc[c] = "idle"
    /\ \E org_uuid, uuid \in Values :
           LET url          == base_url \o "/organizations/" \o Str(org_uuid) \o "/invitations/" \o Str(uuid)
               query_params == Dict(<< >>)
           IN  Invoke(c, "revoke_user_sorganization_invitation", << org_uuid, uuid >>, Dict(<< >>),
                      IF org_uuid = None THEN ValueError("Missing required parameter 'org_uuid'")
                      ELSE IF uuid = None THEN ValueError("Missing required parameter 'uuid'")
                      ELSE _delete(url, query_params))

\* app.py 424-446: get_organization_membership(uuid)
get_organization_membership(c) ==
    /\ pc[c] = "idle"
    /\ \E uuid \in Values :
           LET url          == base_url \o "/organization_memberships/" \o Str(uuid)
               query_params == Dict(<< >>)
           IN  Invoke(c, "get_organization_membership", << uuid >>, Dict(<< >>),
                      IF uuid = None THEN ValueError("Missing required parameter 'uuid'")
                      ELSE _get(url, query_params))

\* Variant: the path names the collection in the singular.
remove_user_from_organization_singular(c) ==
    /\ pc[c] = "idle"
    /\ \E uuid \in Values :
           LET url          == base_url \o "/organization_membership/" \o Str(uuid)
               query_params == Dict(<< >>)
           IN  Invoke(c, "remove_user_from_organization", << uuid >>, Dict(<< >>),
                      IF uuid = None THEN ValueError("Missing required parameter 'uuid'")
                      ELSE _delete(url, query_params))

\* app.py 448-470: remove_user_from_organization(uuid)
remove_user_from_organization(c) ==
    /\ pc[c] = "idle"
    /\ \E uuid \in Values :
           LET url          == base_url \o "/organization_memberships/" \o Str(uuid)
               query_params == Dict(<< >>)
           IN  Invoke(c, "remove_user_from_organization", << uuid >>, Dict(<< >>),
                      IF uuid = None THEN ValueError("Missing required parameter 'uuid'")
                      ELSE _delete(url, query_params))

\* app.py 472-508: list_organization_memberships(page_token=None, count=None, email=None, organization=None, user=None)
list_organization_memberships(c) ==
    /\ pc[c] = "idle"
    /\ \E kw \in Kwargs({"page_token", "count", "email", "organization", "user"}) :
           LET url          == base_url \o "/organization_memberships"
               query_params == DictComp(<< <<"page_token", kw.page_token>>, <<"count", kw.count>>, <<"email", kw.email>>, <<"organization", kw.organization>>, <<"user", kw.user>> >>)
           IN  Invoke(c, "list_organization_memberships", <<  >>, kw,
                      _get(url, query_params))

\* app.py 510-532: get_webhook_subscription(webhook_uuid)
get_webhook_subscription(c) ==
    /\ pc[c] = "idle"
    /\ \E webhook_uuid \in Values :
           LET url          == base_url \o "/webhook_subscriptions/" \o Str(webhook_uuid)
               query_params == Dict(<< >>)
           IN  Invoke(c, "get_webhook_subscription", << webhook_uuid >>, Dict(<< >>),
                      IF webhook_uuid = None THEN ValueError("Missing required parameter 'webhook_uuid'")
                      ELSE _get(url, query_params))

\* app.py 534-557: delete_webhook_subscription(webhook_uuid)
delete_webhook_subscription(c) ==
    /\ pc[c] = "idle"
    /\ \E webhook_uuid \in Values :
           LET url          == base_url \o "/webhook_subscriptions/" \o Str(webhook_uuid)
               query_params == Dict(<< >>)
           IN  Invoke(c, "delete_webhook_subscription", << webhook_uuid >>, Dict(<< >>),
                      IF webhook_uuid = None THEN ValueError("Missing required parameter 'webhook_uuid'")
                      ELSE _delete(url, query_params))

\* app.py 559-603: list_webhook_subscriptions(organization=None, user=None, page_token=None, count=None, sort=None, scope=None)
list_webhook_subscriptions(c) ==
    /\ pc[c] = "idle"
    /\ \E kw \in Kwargs({"organization", "user", "page_token", "count", "sort", "scope"}) :
           LET url          == base_url \o "/webhook_subscriptions"
               query_params == DictComp(<< <<"organization", kw.organization>>, <<"user", kw.user>>, <<"page_token", kw.page_token>>, <<"count", kw.count>>, <<"sort", kw.sort>>, <<"scope", kw.scope>> >>)
           IN  Invoke(c, "list_webhook_subscriptions", <<  >>, kw,
                      _get(url, query_params))

\* Variant: the caller's url argument, when given, is the address the request goes to.
create_webhook_subscription_target(c) ==
    /\ pc[c] = "idle"
    /\ \E kw \in Kwargs({"events", "group", "organization", "scope", "signing_key", "url", "user"}) :
           LET request_body0 == Dict(<< <<"events", kw.events>>, <<"group", kw.group>>, <<"organization", kw.organization>>, <<"scope", kw.scope>>, <<"signing_key", kw.signing_key>>, <<"url", kw.url>>, <<"user", kw.user>> >>)
               request_body  == NotNone(request_body0)
               url           == IF kw.url # None THEN Str(kw.url)
                                 ELSE base_url \o "/webhook_subscriptions"
               query_params  == Dict(<< >>)
           IN  Invoke(c, "create_webhook_subscription", <<  >>, kw,
                      _post(url, request_body, query_params))

\* Variant: the body is assembled after url has been rebound to the endpoint address.
create_webhook_subscription_rebound(c) ==
    /\ pc[c] = "idle"
    /\ \E kw \in Kwargs({"events", "group", "organization", "scope", "signing_key", "url", "user"}) :
           LET request_body0 == Dict(<< <<"events", kw.events>>, <<"group", kw.group>>, <<"organization", kw.organization>>, <<"scope", kw.scope>>, <<"signing_key", kw.signing_key>>, <<"url", << "str", base_url \o "/webhook_subscriptions" >> >>, <<"user", kw.user>> >>)
               request_body  == NotNone(request_body0)
               url           == base_url \o "/webhook_subscriptions"
               query_params  == Dict(<< >>)
           IN  Invoke(c, "create_webhook_subscription", <<  >>, kw,
                      _post(url, request_body, query_params))

\* app.py 605-650: create_webhook_subscription(events=None, group=None, organization=None, scope=None, signing_key=None, url=None, user=None)
create_webhook_subscription(c) ==
    /\ pc[c] = "idle"
    /\ \E kw \in Kwargs({"events", "group", "organization", "scope", "signing_key", "url", "user"}) :
           LET request_body0 == Dict(<< <<"events", kw.events>>, <<"group", kw.group>>, <<"organization", kw.organization>>, <<"scope", kw.scope>>, <<"signing_key", kw.signing_key>>, <<"url", kw.url>>, <<"user", kw.user>> >>)
               request_body  == NotNone(request_body0)
               url           == base_url \o "/webhook_subscriptions"
               query_params  == Dict(<< >>)
           IN  Invoke(c, "create_webhook_subscription", <<  >>, kw,
                      _post(url, request_body, query_params))

\* app.py 652-682: create_single_use_scheduling_link(max_event_count=None, owner=None, owner_type=None)
create_single_use_scheduling_link(c) ==
    /\ pc[c] = "idle"
    /\ \E kw \in Kwargs({"max_event_count", "owner", "owner_type"}) :
           LET request_body0 == Dict(<< <<"max_event_count", kw.max_event_count>>, <<"owner", kw.owner>>, <<"owner_type", kw.owner_type>> >>)
               request_body  == NotNone(request_body0)
               url           == base_url \o "/scheduling_links"
               query_params  == Dict(<< >>)
           IN  Invoke(c, "create_single_use_scheduling_link", <<  >>, kw,
                      _post(url, request_body, query_params))

\* app.py 684-708: delete_invitee_data(emails=None)
delete_invitee_data(c) ==
    /\ pc[c] = "idle"
    /\ \E kw \in Kwargs({"emails"}) :
           LET request_body0 == Dict(<< <<"emails", kw.emails>> >>)
               request_body  == NotNone(request_body0)
               url           == base_url \o "/data_compliance/deletion/invitees"
               query_params  == Dict(<< >>)
           IN  Invoke(c, "delete_invitee_data", <<  >>, kw,
                      _post(url, request_body, query_params))

\* Variant: a call that supplies no field is rejected.
delete_scheduled_event_data_required(c) ==
    /\ pc[c] = "idle"
    /\ \E kw \in Kwargs({"end_time", "start_time"}) :
           LET request_body0 == Dict(<< <<"end_time", kw.end_time>>, <<"start_time", kw.start_time>> >>)
               request_body  == NotNone(request_body0)
               url           == base_url \o "/data_compliance/deletion/events"
               query_params  == Dict(<< >>)
           IN  Invoke(c, "delete_scheduled_event_data", <<  >>, kw,
                      IF request_body = << >>
                      THEN ValueError("Missing required parameter 'start_time'")
                      ELSE _post(url, request_body, query_params))

\* app.py 710-738: delete_scheduled_event_data(end_time=None, start_time=None)
delete_scheduled_event_data(c) ==
    /\ pc[c] = "idle"
    /\ \E kw \in Kwargs({"end_time", "start_time"}) :
           LET request_body0 == Dict(<< <<"end_time", kw.end_time>>, <<"start_time", kw.start_time>> >>)
               request_body  == NotNone(request_body0)
               url           == base_url \o "/data_compliance/deletion/events"
               query_params  == Dict(<< >>)
           IN  Invoke(c, "delete_scheduled_event_data", <<  >>, kw,
                      _post(url, request_body, query_params))

\* app.py 740-763: get_invitee_no_show(uuid)
get_invitee_no_show(c) ==
    /\ pc[c] = "idle"
    /\ \E uuid \in Values :
           LET url          == base_url \o "/invitee_no_shows/" \o Str(uuid)
               query_params == Dict(<< >>)
           IN  Invoke(c, "get_invitee_no_show", << uuid >>, Dict(<< >>),
                      IF uuid = None THEN ValueError("Missing required parameter 'uuid'")
                      ELSE _get(url, query_params))

\* Variant: the request goes through self._get.
delete_invitee_no_show_get(c) ==
    /\ pc[c] = "idle"
    /\ \E uuid \in Values :
           LET url          == base_url \o "/invitee_no_shows/" \o Str(uuid)
               query_params == Dict(<< >>)
           IN  Invoke(c, "delete_invitee_no_show", << uuid >>, Dict(<< >>),
                      IF uuid = None THEN ValueError("Missing required parameter 'uuid'")
                      ELSE _get(url, query_params))

\* app.py 765-788: delete_invitee_no_show(uuid)
delete_invitee_no_show(c) ==
    /\ pc[c] = "idle"
    /\ \E uuid \in Values :
           LET url          == base_url \o "/invitee_no_shows/" \o Str(uuid)
               query_params == Dict(<< >>)
           IN  Invoke(c, "delete_invitee_no_show", << uuid >>, Dict(<< >>),
                      IF uuid = None THEN ValueError("Missing required parameter 'uuid'")
                      ELSE _delete(url, query_params))

\* app.py 790-815: create_invitee_no_show(invitee=None)
create_invitee_no_show(c) ==
    /\ pc[c] = "idle"
    /\ \E kw \in Kwargs({"invitee"}) :
           LET request_body0 == Dict(<< <<"invitee", kw.invitee>> >>)
               request_body  == NotNone(request_body0)
               url           == base_url \o "/invitee_no_shows"
               query_params  == Dict(<< >>)
           IN  Invoke(c, "create_invitee_no_show", <<  >>, kw,
                      _post(url, request_body, query_params))

\* app.py 817-840: get_group(uuid)
get_group(c) ==
    /\ pc[c] = "idle"
    /\ \E uuid \in Values :
           LET url          == base_url \o "/groups/" \o Str(uuid)
               query_params == Dict(<< >>)
           IN  Invoke(c, "get_group", << uuid >>, Dict(<< >>),
                      IF uuid = None THEN ValueError("Missing required parameter 'uuid'")
                      ELSE _get(url, query_params))

\* app.py 842-874: list_groups(organization=None, page_token=None, count=None)
list_groups(c) ==
    /\ pc[c] = "idle"
    /\ \E kw \in Kwargs({"organization", "page_token", "count"}) :
           LET url          == base_url \o "/groups"
               query_params == DictComp(<< <<"organization", kw.organization>>, <<"page_token", kw.page_token>>, <<"count", kw.count>> >>)
           IN  Invoke(c, "list_groups", <<  >>, kw,
                      _get(url, query_params))

\* app.py 876-899: get_group_relationship(uuid)
get_group_relationship(c) ==
    /\ pc[c] = "idle"
    /\ \E uuid \in Values :
           LET url          == base_url \o "/group_relationships/" \o Str(uuid)
               query_params == Dict(<< >>)
           IN  Invoke(c, "get_group_relationship", << uuid >>, Dict(<< >>),
                      IF uuid = None THEN ValueError("Missing required parameter 'uuid'")
                      ELSE _get(url, query_params))

\* app.py 901-937: list_group_relationships(count=None, page_token=None, organization=None, owner=None, group=None)
list_group_relationships(c) ==
    /\ pc[c] = "idle"
    /\ \E kw \in Kwargs({"count", "page_token", "organization", "owner", "group"}) :
           LET url          == base_url \o "/group_relationships"
               query_params == DictComp(<< <<"count", kw.count>>, <<"page_token", kw.page_token>>, <<"organization", kw.organization>>, <<"owner", kw.owner>>, <<"group", kw.group>> >>)
           IN  Invoke(c, "list_group_relationships", <<  >>, kw,
                      _get(url, query_params))

\* app.py 939-962: get_routing_form(uuid)
get_routing_form(c) ==
    /\ pc[c] = "idle"
    /\ \E uuid \in Values :
           LET url          == base_url \o "/routing_forms/" \o Str(uuid)
               query_params == Dict(<< >>)
           IN  Invoke(c, "get_routing_form", << uuid >>, Dict(<< >>),
                      IF uuid = None THEN ValueError("Missing required parameter 'uuid'")
                      ELSE _get(url, query_params))

\* app.py 964-998: list_routing_forms(organization=None, count=None, page_token=None, sort=None)
list_routing_forms(c) ==
    /\ pc[c] = "idle"
    /\ \E kw \in Kwargs({"organization", "count", "page_token", "sort"}) :
           LET url          == base_url \o "/routing_forms"
               query_params == DictComp(<< <<"organization", kw.organization>>, <<"count", kw.count>>, <<"page_token", kw.page_token>>, <<"sort", kw.sort>> >>)
           IN  Invoke(c, "list_routing_forms", <<  >>, kw,
                      _get(url, query_params))

\* app.py 1000-1022: get_routing_form_submission(uuid)
get_routing_form_submission(c) ==
    /\ pc[c] = "idle"
    /\ \E uuid \in Values :
           LET url          == base_url \o "/routing_form_submissions/" \o Str(uuid)
               query_params == Dict(<< >>)
           IN  Invoke(c, "get_routing_form_submission", << uuid >>, Dict(<< >>),
                      IF uuid = None THEN ValueError("Missing required parameter 'uuid'")
                      ELSE _get(url, query_params))

\* app.py 1024-1058: list_routing_form_submissions(form=None, count=None, page_token=None, sort=None)
list_routing_form_submissions(c) ==
    /\ pc[c] = "idle"
    /\ \E kw \in Kwargs({"form", "count", "page_token", "sort"}) :
           LET url          == base_url \o "/routing_form_submissions"
               query_params == DictComp(<< <<"form", kw.form>>, <<"count", kw.count>>, <<"page_token", kw.page_token>>, <<"sort", kw.sort>> >>)
           IN  Invoke(c, "list_routing_form_submissions", <<  >>, kw,
                      _get(url, query_params))

\* app.py 1060-1092: list_event_type_available_times(event_type=None, start_time=None, end_time=None)
list_event_type_available_times(c) ==
    /\ pc[c] = "idle"
    /\ \E kw \in Kwargs({"event_type", "start_time", "end_time"}) :
           LET url          == base_url \o "/event_type_available_times"
               query_params == DictComp(<< <<"event_type", kw.event_type>>, <<"start_time", kw.start_time>>, <<"end_time", kw.end_time>> >>)
           IN  Invoke(c, "list_event_type_available_times", <<  >>, kw,
                      _get(url, query_params))

\* app.py 1094-1150: list_activity_log_entries(organization=None, search_term=None, actor=None, sort=None, min_occurred_at=None, max_occurred_at=None, page_token=None, count=None, namespace=None, action=None)
list_activity_log_entries(c) ==
    /\ pc[c] = "idle"
    /\ \E kw \in Kwargs({"organization", "search_term", "actor", "sort", "min_occurred_at", "max_occurred_at", "page_token", "count", "namespace", "action"}) :
           LET url          == base_url \o "/activity_log_entries"
               query_params == DictComp(<< <<"organization", kw.organization>>, <<"search_term", kw.search_term>>, <<"actor", kw.actor>>, <<"sort", kw.sort>>, <<"min_occurred_at", kw.min_occurred_at>>, <<"max_occurred_at", kw.max_occurred_at>>, <<"page_token", kw.page_token>>, <<"count", kw.count>>, <<"namespace", kw.namespace>>, <<"action", kw.action>> >>)
           IN  Invoke(c, "list_activity_log_entries", <<  >>, kw,
                      _get(url, query_params))

\* Variant: the fields of the share are also sent as query parameters.
create_share_query(c) ==
    /\ pc[c] = "idle"
    /\ \E kw \in Kwargs({"availability_rule", "duration", "end_date", "event_type", "hide_location", "location_configurations", "max_booking_time", "name", "period_type", "start_date"}) :
           LET request_body0 == Dict(<< <<"availability_rule", kw.availability_rule>>, <<"duration", kw.duration>>, <<"end_date", kw.end_date>>, <<"event_type", kw.event_type>>, <<"hide_location", kw.hide_location>>, <<"location_configurations", kw.location_configurations>>, <<"max_booking_time", kw.max_booking_time>>, <<"name", kw.name>>, <<"period_type", kw.period_type>>, <<"start_date", kw.start_date>> >>)
               request_body  == NotNone(request_body0)
               url           == base_url \o "/shares"
               query_params  == request_body
           IN  Invoke(c, "create_share", <<  >>, kw,
                      _post(url, request_body, query_params))

\* app.py 1152-1206: create_share(availability_rule=None, duration=None, end_date=None, event_type=None, hide_location=None, location_configurations=None, max_booking_time=None, name=None, period_type=None, start_date=None)
create_share(c) ==
    /\ pc[c] = "idle"
    /\ \E kw \in Kwargs({"availability_rule", "duration", "end_date", "event_type", "hide_location", "location_configurations", "max_booking_time", "name", "period_type", "start_date"}) :
           LET request_body0 == Dict(<< <<"availability_rule", kw.availability_rule>>, <<"duration", kw.duration>>, <<"end_date", kw.end_date>>, <<"event_type", kw.event_type>>, <<"hide_location", kw.hide_location>>, <<"location_configurations", kw.location_configurations>>, <<"max_booking_time", kw.max_booking_time>>, <<"name", kw.name>>, <<"period_type", kw.period_type>>, <<"start_date", kw.start_date>> >>)
               request_body  == NotNone(request_body0)
               url           == base_url \o "/shares"
               query_params  == Dict(<< >>)
           IN  Invoke(c, "create_share", <<  >>, kw,
                      _post(url, request_body, query_params))

\* app.py 1208-1240: list_user_busy_times(user=None, start_time=None, end_time=None)
list_user_busy_times(c) ==
    /\ pc[c] = "idle"
    /\ \E kw \in Kwargs({"user", "start_time", "end_time"}) :
           LET url          == base_url \o "/user_busy_times"
               query_params == DictComp(<< <<"user", kw.user>>, <<"start_time", kw.start_time>>, <<"end_time", kw.end_time>> >>)
           IN  Invoke(c, "list_user_busy_times", <<  >>, kw,
                      _get(url, query_params))

\* app.py 1242-1264: get_user_availability_schedule(uuid)
get_user_availability_schedule(c) ==
    /\ pc[c] = "idle"
    /\ \E uuid \in Values :
           LET url          == base_url \o "/user_availability_schedules/" \o Str(uuid)
               query_params == Dict(<< >>)
           IN  Invoke(c, "get_user_availability_schedule", << uuid >>, Dict(<< >>),
                      IF uuid = None THEN ValueError("Missing required parameter 'uuid'")
                      ELSE _get(url, query_params))

\* app.py 1266-1286: list_user_availability_schedules(user=None)
list_user_availability_schedules(c) ==
    /\ pc[c] = "idle"
    /\ \E kw \in Kwargs({"user"}) :
           LET url          == base_url \o "/user_availability_schedules"
               query_params == DictComp(<< <<"user", kw.user>> >>)
           IN  Invoke(c, "list_user_availability_schedules", <<  >>, kw,
                      _get(url, query_params))

\* app.py 1288-1320: list_event_type_hosts(event_type=None, count=None, page_token=None)
list_event_type_hosts(c) ==
    /\ pc[c] = "idle"
    /\ \E kw \in Kwargs({"event_type", "count", "page_token"}) :
           LET url          == base_url \o "/event_type_memberships"
               query_params == DictComp(<< <<"event_type", kw.event_type>>, <<"count", kw.count>>, <<"page_token", kw.page_token>> >>)
           IN  Invoke(c, "list_event_type_hosts", <<  >>, kw,
                      _get(url, query_params))

\* app.py 1322-1367: create_one_off_event_type(co_hosts=None, date_setting=None, duration=None, host=None, location=None, name=None, timezone=None)
create_one_off_event_type(c) ==
    /\ pc[c] = "idle"
    /\ \E kw \in Kwargs({"co_hosts", "date_setting", "duration", "host", "location", "name", "timezone"}) :
           LET request_body0 == Dict(<< <<"co_hosts", kw.co_hosts>>, <<"date_setting", kw.date_setting>>, <<"duration", kw.duration>>, <<"host", kw.host>>, <<"location", kw.location>>, <<"name", kw.name>>, <<"timezone", kw.timezone>> >>)
               request_body  == NotNone(request_body0)
               url           == base_url \o "/one_off_event_types"
               query_params  == Dict(<< >>)
           IN  Invoke(c, "create_one_off_event_type", <<  >>, kw,
                      _post(url, request_body, query_params))

\* app.py 1369-1403: get_sample_webhook_data(event=None, organization=None, user=None, scope=None)
get_sample_webhook_data(c) ==
    /\ pc[c] = "idle"
    /\ \E kw \in Kwargs({"event", "organization", "user", "scope"}) :
           LET url          == base_url \o "/sample_webhook_data"
               query_params == DictComp(<< <<"event", kw.event>>, <<"organization", kw.organization>>, <<"user", kw.user>>, <<"scope", kw.scope>> >>)
           IN  Invoke(c, "get_sample_webhook_data", <<  >>, kw,
                      _get(url, query_params))

\* ------------------------------------------------- after the transport call

\* Variant: a failed transport call is retried.
TransportFails_retry(c) ==
    /\ pc[c] = "awaiting"
    /\ wire' = [ wire EXCEPT ![c] = Append(@, @[Len(@)]) ]
    /\ UNCHANGED << base_url, pc, op, args, reply, outcome >>

\* self._get / self._post / self._delete raises: no operation catches it.
TransportFails(c) ==
    /\ pc[c] = "awaiting"
    /\ pc' = [ pc EXCEPT ![c] = "done" ]
    /\ outcome' = [ outcome EXCEPT ![c] = [ kind |-> "TransportError" ] ]
    /\ UNCHANGED << base_url, op, args, wire, reply >>

\* Variant: the pagination entry is stripped from the returned document.
Handle_strip(response) ==
    IF raise_for_status(response) # {}
    THEN CHOOSE e \in raise_for_status(response) : TRUE
    ELSE LET r == json(response)
         IN  IF r.kind = "return"
             THEN [ r EXCEPT !.value =
                      [ k \in DOMAIN r.value \ { "next_page_token" } |-> r.value[k] ] ]
             ELSE r

\* Variant: response.raise_for_status() is not called.
Handle_unraised(response) == json(response)

\* Variant: an empty body of a success response is returned as an empty result.
Handle_lenient(response) ==
    IF raise_for_status(response) # {}
    THEN CHOOSE e \in raise_for_status(response) : TRUE
    ELSE IF response.text = ""
         THEN [ kind |-> "return", value |-> << >> ]
         ELSE json(response)

\* Variant: the body is decoded before the status is checked.
Handle_decode_first(response) ==
    IF json(response).kind # "return"
    THEN json(response)
    ELSE IF raise_for_status(response) # {}
         THEN CHOOSE e \in raise_for_status(response) : TRUE
         ELSE json(response)

\* Variant: a response without a body skips the status check.
Handle_empty_first(response) ==
    IF response.text = ""
    THEN json(response)
    ELSE IF raise_for_status(response) # {}
         THEN CHOOSE e \in raise_for_status(response) : TRUE
         ELSE json(response)

\* response.raise_for_status(); return response.json()
Handle(response) ==
    IF raise_for_status(response) # {}
    THEN CHOOSE e \in raise_for_status(response) : TRUE
    ELSE json(response)

\* Variant: a page that names a next page is followed by a request for it.
Respond_follow(c) ==
    \E response \in Responses :
        /\ pc[c] = "awaiting"
        /\ reply' = [ reply EXCEPT ![c] = { response } ]
        /\ outcome' = [ outcome EXCEPT ![c] = Handle(response) ]
        /\ pc' = [ pc EXCEPT ![c] = "done" ]
        /\ wire' = [ wire EXCEPT ![c] =
                      IF /\ Handle(response).kind = "return"
                         /\ "next_page_token" \in DOMAIN Handle(response).value
                      THEN Append(@, [ @[1] EXCEPT !.params =
                                [ k \in DOMAIN @ \cup { "page_token" } |->
                                    IF k = "page_token"
                                    THEN << "str", Handle(response).value.next_page_token >>
                                    ELSE @[k] ] ])
                      ELSE @ ]
        /\ UNCHANGED << base_url, op, args >>

\* The transport returns a response; the operation runs its last two lines.
Respond(c) ==
    \E response \in Responses :
        /\ pc[c] = "awaiting"
        /\ reply' = [ reply EXCEPT ![c] = { response } ]
        /\ outcome' = [ outcome EXCEPT ![c] = Handle(response) ]
        /\ pc' = [ pc EXCEPT ![c] = "done" ]
        /\ UNCHANGED << base_url, op, args, wire >>

\* The caller has the outcome; the invocation's locals are gone.
Return(c) ==
    /\ pc[c] = "done"
    /\ pc' = [ pc EXCEPT ![c] = "idle" ]
    /\ op' = [ op EXCEPT ![c] = "" ]
    /\ args' = [ args EXCEPT ![c] = NoArgs ]
    /\ wire' = [ wire EXCEPT ![c] = << >> ]
    /\ reply' = [ reply EXCEPT ![c] = {} ]
    /\ outcome' = [ outcome EXCEPT ![c] = NoOutcome ]
    /\ UNCHANGED base_url

Next ==
    \/ \E c \in DOMAIN pc : list_event_invitees(c)
    \/ \E c \in DOMAIN pc : get_event(c)
    \/ \E c \in DOMAIN pc : get_event_invitee(c)
    \/ \E c \in DOMAIN pc : list_events(c)
    \/ \E c \in DOMAIN pc : get_event_type(c)
    \/ \E c \in DOMAIN pc : list_user_sevent_types(c)
    \/ \E c \in DOMAIN pc : get_user(c)
    \/ \E c \in DOMAIN pc : get_current_user(c)
    \/ \E c \in DOMAIN pc : list_organization_invitations(c)
    \/ \E c \in DOMAIN pc : invite_user_to_organization(c)
    \/ \E c \in DOMAIN pc : get_organization_invitation(c)
    \/ \E c \in DOMAIN pc : revoke_user_sorganization_invitation(c)
    \/ \E c \in DOMAIN pc : get_organization_membership(c)
    \/ \E c \in DOMAIN pc : remove_user_from_organization(c)
    \/ \E c \in DOMAIN pc : list_organization_memberships(c)
    \/ \E c \in DOMAIN pc : get_webhook_subscription(c)
    \/ \E c \in DOMAIN pc : delete_webhook_subscription(c)
    \/ \E c \in DOMAIN pc : list_webhook_subscriptions(c)
    \/ \E c \in DOMAIN pc : create_webhook_subscription(c)
    \/ \E c \in DOMAIN pc : create_single_use_scheduling_link(c)
    \/ \E c \in DOMAIN pc : delete_invitee_data(c)
    \/ \E c \in DOMAIN pc : delete_scheduled_event_data(c)
    \/ \E c \in DOMAIN pc : get_invitee_no_show(c)
    \/ \E c \in DOMAIN pc : delete_invitee_no_show(c)
    \/ \E c \in DOMAIN pc : create_invitee_no_show(c)
    \/ \E c \in DOMAIN pc : get_group(c)
    \/ \E c \in DOMAIN pc : list_groups(c)
    \/ \E c \in DOMAIN pc : get_group_relationship(c)
    \/ \E c \in DOMAIN pc : list_group_relationships(c)
    \/ \E c \in DOMAIN pc : get_routing_form(c)
    \/ \E c \in DOMAIN pc : list_routing_forms(c)
    \/ \E c \in DOMAIN pc : get_routing_form_submission(c)
    \/ \E c \in DOMAIN pc : list_routing_form_submissions(c)
    \/ \E c \in DOMAIN pc : list_event_type_available_times(c)
    \/ \E c \in DOMAIN pc : list_activity_log_entries(c)
    \/ \E c \in DOMAIN pc : create_share(c)
    \/ \E c \in DOMAIN pc : list_user_busy_times(c)
    \/ \E c \in DOMAIN pc : get_user_availability_schedule(c)
    \/ \E c \in DOMAIN pc : list_user_availability_schedules(c)
    \/ \E c \in DOMAIN pc : list_event_type_hosts(c)
    \/ \E c \in DOMAIN pc : create_one_off_event_type(c)
    \/ \E c \in DOMAIN pc : get_sample_webhook_data(c)
    \/ \E c \in DOMAIN pc : TransportFails(c)
    \/ \E c \in DOMAIN pc : Respond(c)
    \/ \E c \in DOMAIN pc : Return(c)

Spec == Init /\ [][Next]_vars

\* Two invocations on the same client, interleaved in every way.
Threads == { 1, 2 }

InitConcurrent ==
    /\ base_url = "https://api.calendly.com"
    /\ pc = [ c \in Threads |-> "idle" ]
    /\ op = [ c \in Threads |-> "" ]
    /\ args = [ c \in Threads |-> NoArgs ]
    /\ wire = [ c \in Threads |-> << >> ]
    /\ reply = [ c \in Threads |-> {} ]
    /\ outcome = [ c \in Threads |-> NoOutcome ]

\* A GET by identifier, a GET with a query parameter, a POST with a body
\* field and a DELETE, each callable by either invocation.
NextConcurrent ==
    \/ \E c \in DOMAIN pc : get_event(c)
    \/ \E c \in DOMAIN pc : list_user_availability_schedules(c)
    \/ \E c \in DOMAIN pc : delete_invitee_data(c)
    \/ \E c \in DOMAIN pc : remove_user_from_organization(c)
    \/ \E c \in DOMAIN pc : TransportFails(c)
    \/ \E c \in DOMAIN pc : Respond(c)
    \/ \E c \in DOMAIN pc : Return(c)

SpecConcurrent == InitConcurrent /\ [][NextConcurrent]_vars

\* -------------------------------------------------------------- list_tools

\* The list list_tools returns: the bound methods, by name, in the order
\* of the list literal.
Tools ==
    << "list_event_invitees", "get_event", "get_event_invitee",
       "list_events", "get_event_type", "list_user_sevent_types", "get_user",
       "get_current_user", "list_organization_invitations",
       "invite_user_to_organization", "get_organization_invitation",
       "revoke_user_sorganization_invitation", "get_organization_membership",
       "remove_user_from_organization", "list_organization_memberships",
       "get_webhook_subscription", "delete_webhook_subscription",
       "list_webhook_subscriptions", "create_webhook_subscription",
       "create_single_use_scheduling_link", "delete_invitee_data",
       "delete_scheduled_event_data", "get_invitee_no_show",
       "delete_invitee_no_show", "create_invitee_no_show", "get_group",
       "list_groups", "get_group_relationship", "list_group_relationships",
       "get_routing_form", "list_routing_forms",
       "get_routing_form_submission", "list_routing_form_submissions",
       "list_event_type_available_times", "list_activity_log_entries",
       "create_share", "list_user_busy_times",
       "get_user_availability_schedule", "list_user_availability_schedules",
       "list_event_type_hosts", "create_one_off_event_type",
       "get_sample_webhook_data" >>

\* Variant: the last operation defined is not in the list.
list_tools_partial(c) ==
    /\ pc[c] = "idle"
    /\ Invoke(c, "list_tools", << >>, Dict(<< >>),
              [ kind |-> "return", value |-> SubSeq(Tools, 1, Len(Tools) - 1) ])

\* app.py 1405-1458: list_tools()
list_tools(c) ==
    /\ pc[c] = "idle"
    /\ Invoke(c, "list_tools", << >>, Dict(<< >>),
              [ kind |-> "return", value |-> Tools ])

\* The client with list_tools among the calls made on it.
NextTools ==
    \/ Next
    \/ \E c \in DOMAIN pc : list_tools(c)

SpecTools == Init /\ [][NextTools]_vars

TypeOK ==
    /\ base_url \in STRING
    /\ \A c \in DOMAIN pc :
        /\ pc[c] \in { "idle", "awaiting", "done" }
        /\ Len(wire[c]) <= 1

\* ================================================================ properties

\* The invocations that have been called and not yet handed back.
Active == { c \in DOMAIN pc : pc[c] # "idle" }

\* The invocations whose call has ended.
Ended == { c \in DOMAIN pc : pc[c] = "done" }

\* The invocations the transport answered with a response.
Answered == { c \in Ended : reply[c] # {} }

\* Number of HTTP requests invocation c has issued.
Issued(c) == Len(wire[c])

\* Some required path parameter of c is absent.
SomeRequiredAbsent(c) == \E i \in DOMAIN args[c].pos : args[c].pos[i] = None

\* The names carried by a request's query string and by its body.
QueryKeys(r) == DOMAIN r.params
BodyKeys(r) == UNION { DOMAIN b : b \in r.body }

Success(response) == response.status_code \in 200..299

\* ----------------------------------------------------------------------- C1
\* C1: a call in which at least one required path parameter is None ends in
\* the missing-parameter error (ValueError) and has issued no HTTP request.
C1_MissingParameterNoRequest ==
    \A c \in Active :
        SomeRequiredAbsent(c) =>
            /\ pc[c] = "done"
            /\ outcome[c].kind = "ValueError"
            /\ Issued(c) = 0

\* get_event_invitee called with a present event_uuid and invitee_uuid None.
C1_Witness ==
    \E c \in Ended :
        /\ op[c] = "get_event_invitee"
        /\ args[c].pos = << << "str", "abc-123" >>, None >>
        /\ outcome[c].kind = "ValueError"
        /\ wire[c] = << >>

\* ----------------------------------------------------------------------- C2
\* C2: an optional parameter the caller left None is a key neither of the
\* outgoing query map nor of the outgoing body, and every key sent is one of
\* the operation's optional parameter names.
C2_AbsentOptionalNotSent ==
    \A c \in Active :
        \A i \in DOMAIN wire[c] :
            LET sent == QueryKeys(wire[c][i]) \cup BodyKeys(wire[c][i])
            IN  /\ \A k \in DOMAIN args[c].kw : args[c].kw[k] = None => k \notin sent
                /\ sent \subseteq DOMAIN args[c].kw

\* list_events(status=..., count=...) with the other eight filters absent has
\* been sent with exactly those two keys.
C2_Witness ==
    \E c \in Active :
        /\ op[c] = "list_events"
        /\ { k \in DOMAIN args[c].kw : args[c].kw[k] # None } = { "status", "count" }
        /\ Issued(c) = 1
        /\ QueryKeys(wire[c][1]) = { "status", "count" }

\* ----------------------------------------------------------------------- C3
\* C3: every optional parameter supplied with a present value (False, 0 and ''
\* included) is sent under its own name with exactly the supplied value: in
\* the query map of a GET, in the body of a POST.
C3_PresentOptionalSent ==
    \A c \in Active :
        \A i \in DOMAIN wire[c] :
            \A k \in DOMAIN args[c].kw :
                args[c].kw[k] # None =>
                    IF wire[c][i].method = "POST"
                    THEN \A b \in wire[c][i].body :
                            k \in DOMAIN b /\ b[k] = args[c].kw[k]
                    ELSE k \in QueryKeys(wire[c][i])
                         /\ wire[c][i].params[k] = args[c].kw[k]

\* list_user_sevent_types(active=False, count=0) has been sent with both.
C3_Witness ==
    \E c \in Active :
        /\ op[c] = "list_user_sevent_types"
        /\ args[c].kw["active"] = << "bool", "False" >>
        /\ args[c].kw["count"] = << "int", "0" >>
        /\ Issued(c) = 1
        /\ wire[c][1].params =
              [ k \in { "active", "count" } |->
                  IF k = "active" THEN << "bool", "False" >> ELSE << "int", "0" >> ]

\* ----------------------------------------------------------------------- C4
\* C4: when the transport answers with a success status and the text of a
\* JSON document D, the call returns exactly D.
C4_ReturnsDocumentUnmodified ==
    \A c \in Answered :
        \A response \in reply[c] :
            \A t \in JsonTexts :
                (Success(response) /\ response.text = t[1]) =>
                    outcome[c] = [ kind |-> "return", value |-> t[2] ]

\* get_sample_webhook_data answered 200 with a two-key document.
C4_Witness ==
    \E c \in Answered :
        /\ op[c] = "get_sample_webhook_data"
        /\ \E response \in reply[c] :
              /\ response.status_code = 200
              /\ response.text = "{\"collection\":\"[]\",\"next_page_token\":\"tok2\"}"
        /\ outcome[c].kind = "return"
        /\ DOMAIN outcome[c].value = { "collection", "next_page_token" }

\* ----------------------------------------------------------------------- C5
\* C5: when the transport answers with an error status s (4xx or 5xx) and
\* body b, the call ends in the HTTP status error carrying s and b, and
\* returns no value.
C5_HttpErrorCarriesStatusAndBody ==
    \A c \in Answered :
        \A response \in reply[c] :
            response.status_code >= 400 =>
                /\ outcome[c].kind = "HTTPStatusError"
                /\ outcome[c].response.status_code = response.status_code
                /\ outcome[c].response.text = response.text

\* get_event answered 404 {"message":"not found"}.
C5_Witness ==
    \E c \in Answered :
        /\ op[c] = "get_event"
        /\ reply[c] = { [ status_code |-> 404,
                          text |-> "{\"message\":\"not found\"}" ] }
        /\ outcome[c].kind = "HTTPStatusError"
        /\ outcome[c].response.status_code = 404

C7_SingleRequest ==
    \A c \in DOMAIN pc :
        /\ Issued(c) <= 1
        /\ (c \in Active /\ ~SomeRequiredAbsent(c)) => Issued(c) = 1
        /\ \A response \in reply[c] :
              ( /\ Success(response)
                /\ response.text = "{\"collection\":\"[]\",\"next_page_token\":\"tok2\"}" )
              => /\ Issued(c) = 1
                 /\ pc[c] = "done"
                 /\ outcome[c].kind = "return"
                 /\ outcome[c].value.next_page_token = "tok2"

\* list_events returned a page that names a next page.
C7_Witness ==
    \E c \in Answered :
        /\ op[c] = "list_events"
        /\ outcome[c].kind = "return"
        /\ "next_page_token" \in DOMAIN outcome[c].value
        /\ Issued(c) = 1

\* ----------------------------------------------------------------------- C8
ErrorKinds == { "ValueError", "TransportError", "HTTPStatusError", "JSONDecodeError" }

\* What the failure the transport answer amounts to, if it is one.
FailureOf(answer) ==
    IF answer = {} THEN { "TransportError" }
    ELSE UNION { IF ~Success(response) THEN { "HTTPStatusError" }
                 ELSE IF \A t \in JsonTexts : t[1] # response.text
                      THEN { "JSONDecodeError" }
                      ELSE {} : response \in answer }

\* C8: a failure ends the call with that error: the step in which the
\* transport call fails (transport failure, non-success status, undecodable
\* body) makes that error the outcome without another request, a transport
\* failure surfaces as TransportError, and once the outcome is an error no
\* further request is issued and the error is not replaced by a return value.
C8_FailurePropagates ==
    [][ \A c \in DOMAIN pc :
          /\ pc[c] = "awaiting" =>
                /\ wire'[c] = wire[c]
                /\ pc'[c] = "done" =>
                      \A k \in FailureOf(reply'[c]) : outcome'[c].kind = k
          /\ outcome[c].kind \in ErrorKinds =>
                /\ pc[c] = "done"
                /\ Len(wire'[c]) <= Len(wire[c])
                /\ outcome'[c] \in { outcome[c], NoOutcome } ]_vars

\* remove_user_from_organization ended in TransportError after one request.
C8_Witness ==
    \E c \in Ended :
        /\ op[c] = "remove_user_from_organization"
        /\ outcome[c].kind = "TransportError"
        /\ reply[c] = {}
        /\ Issued(c) = 1

\* ----------------------------------------------------------------------- C9
ReadOps ==
    { "list_event_invitees", "get_event", "get_event_invitee", "list_events",
      "get_event_type", "list_user_sevent_types", "get_user", "get_current_user",
      "list_organization_invitations", "get_organization_invitation",
      "get_organization_membership", "list_organization_memberships",
      "get_webhook_subscription", "list_webhook_subscriptions",
      "get_invitee_no_show", "get_group", "list_groups",
      "get_group_relationship", "list_group_relationships", "get_routing_form",
      "list_routing_forms", "get_routing_form_submission",
      "list_routing_form_submissions", "list_event_type_available_times",
      "list_activity_log_entries", "list_user_busy_times",
      "get_user_availability_schedule", "list_user_availability_schedules",
      "list_event_type_hosts", "get_sample_webhook_data" }

CreateOps ==
    { "invite_user_to_organization", "create_webhook_subscription",
      "create_single_use_scheduling_link", "create_invitee_no_show",
      "create_share", "create_one_off_event_type" }

\* The operations that delete a resource addressed by its path.
ResourceDeleteOps ==
    { "revoke_user_sorganization_invitation", "remove_user_from_organization",
      "delete_webhook_subscription", "delete_invitee_no_show" }

\* The operations that file a data-compliance deletion request.
DeletionRequestOps == { "delete_invitee_data", "delete_scheduled_event_data" }

MethodIs(c, m) == \A i \in DOMAIN wire[c] : wire[c][i].method = m

\* C9 as stated: every read/list operation issues GET, every create operation
\* POST, and every delete operation, delete_invitee_data and
\* delete_scheduled_event_data included, DELETE.
C9_AsStated ==
    \A c \in Active :
        /\ op[c] \in ReadOps => MethodIs(c, "GET")
        /\ op[c] \in CreateOps => MethodIs(c, "POST")
        /\ op[c] \in ResourceDeleteOps \cup DeletionRequestOps => MethodIs(c, "DELETE")

\* C9 (amended): every read/list operation issues GET, every create operation
\* and the two data-compliance deletion-request operations (delete_invitee_data,
\* delete_scheduled_event_data) issue POST, and every operation deleting a
\* resource by its path issues DELETE; every operation is of one of these kinds.
C9_MethodOfKind ==
    \A c \in Active :
        /\ op[c] \in ReadOps \cup CreateOps \cup ResourceDeleteOps \cup DeletionRequestOps
        /\ op[c] \in ReadOps => MethodIs(c, "GET")
        /\ op[c] \in CreateOps \cup DeletionRequestOps => MethodIs(c, "POST")
        /\ op[c] \in ResourceDeleteOps => MethodIs(c, "DELETE")

\* delete_invitee_data has sent its POST to the data-compliance endpoint.
C9_Witness ==
    \E c \in Active :
        /\ op[c] = "delete_invitee_data"
        /\ Issued(c) = 1
        /\ wire[c][1].method = "POST"
        /\ wire[c][1].url = "https://api.calendly.com/data_compliance/deletion/invitees"

\* ---------------------------------------------------------------------- C10
\* C10: get_event(u) with u not None issues exactly GET
\* https://api.calendly.com/scheduled_events/<u> with an empty query map and
\* no body.
C10_GetEventRequest ==
    \A c \in Active :
        (op[c] = "get_event" /\ args[c].pos[1] # None) =>
            wire[c] = << [ method |-> "GET",
                           url |-> "https://api.calendly.com/scheduled_events/"
                                      \o args[c].pos[1][2],
                           params |-> << >>,
                           body |-> {} ] >>

\* get_event("abc-123") has been sent.
C10_Witness ==
    \E c \in Active :
        /\ op[c] = "get_event"
        /\ args[c].pos = << << "str", "abc-123" >> >>
        /\ Issued(c) = 1
        /\ wire[c][1].url = "https://api.calendly.com/scheduled_events/abc-123"

\* ---------------------------------------------------------------------- C11
\* The optional parameters of list_events.
ListEventsFilters ==
    { "user", "organization", "invitee_email", "status", "sort",
      "min_start_time", "max_start_time", "page_token", "count", "group" }

\* C11: whatever subset of its ten optional filters the caller supplies,
\* list_events issues exactly GET https://api.calendly.com/scheduled_events
\* whose query map has the supplied names as keys, each with its supplied
\* value, and no body.
C11_ListEventsRequest ==
    \A c \in Active :
        op[c] = "list_events" =>
            LET supplied == { k \in ListEventsFilters : args[c].kw[k] # None }
            IN  /\ DOMAIN args[c].kw = ListEventsFilters
                /\ wire[c] = << [ method |-> "GET",
                                  url |-> "https://api.calendly.com/scheduled_events",
                                  params |-> [ k \in supplied |-> args[c].kw[k] ],
                                  body |-> {} ] >>

\* list_events(status="", count=0) has been sent.
C11_Witness ==
    \E c \in Active :
        /\ op[c] = "list_events"
        /\ args[c].kw["status"] = << "str", "" >>
        /\ args[c].kw["count"] = << "int", "0" >>
        /\ Issued(c) = 1
        /\ DOMAIN wire[c][1].params = { "status", "count" }
        /\ wire[c][1].params["status"] = << "str", "" >>

\* ---------------------------------------------------------------------- C12
\* C12: invite_user_to_organization(o, email=e) with o and e not None issues
\* exactly POST https://api.calendly.com/organizations/<o>/invitations with
\* the body {"email": e} and an empty query map.
C12_InviteRequest ==
    \A c \in Active :
        ( /\ op[c] = "invite_user_to_organization"
          /\ args[c].pos[1] # None
          /\ args[c].kw["email"] # None ) =>
            wire[c] = << [ method |-> "POST",
                           url |-> "https://api.calendly.com/organizations/"
                                      \o args[c].pos[1][2] \o "/invitations",
                           params |-> << >>,
                           body |-> { [ k \in { "email" } |-> args[c].kw["email"] ] } ] >>

\* invite_user_to_organization("abc-123", email="") has been sent.
C12_Witness ==
    \E c \in Active :
        /\ op[c] = "invite_user_to_organization"
        /\ args[c].pos = << << "str", "abc-123" >> >>
        /\ args[c].kw["email"] = << "str", "" >>
        /\ Issued(c) = 1
        /\ wire[c][1].url = "https://api.calendly.com/organizations/abc-123/invitations"
        /\ wire[c][1].body = { [ email |-> << "str", "" >> ] }

\* ---------------------------------------------------------------------- C13
\* C13: remove_user_from_organization(m) with m not None issues exactly
\* DELETE https://api.calendly.com/organization_memberships/<m> with no body
\* and an empty query map.
C13_RemoveRequest ==
    \A c \in Active :
        (op[c] = "remove_user_from_organization" /\ args[c].pos[1] # None) =>
            wire[c] = << [ method |-> "DELETE",
                           url |-> "https://api.calendly.com/organization_memberships/"
                                      \o args[c].pos[1][2],
                           params |-> << >>,
                           body |-> {} ] >>

\* remove_user_from_organization("abc-123") has been sent.
C13_Witness ==
    \E c \in Active :
        /\ op[c] = "remove_user_from_organization"
        /\ args[c].pos = << << "str", "abc-123" >> >>
        /\ Issued(c) = 1
        /\ wire[c][1].method = "DELETE"
        /\ wire[c][1].url = "https://api.calendly.com/organization_memberships/abc-123"

\* ---------------------------------------------------------------------- C14
\* The method and the path of each operation; "{1}" and "{2}" stand for the
\* first and the second required path parameter.
Endpoint ==
    [ list_event_invitees |->
          [ method |-> "GET", path |-> << "/scheduled_events/", "{1}", "/invitees" >> ],
      get_event |->
          [ method |-> "GET", path |-> << "/scheduled_events/", "{1}" >> ],
      get_event_invitee |->
          [ method |-> "GET", path |-> << "/scheduled_events/", "{1}", "/invitees/", "{2}" >> ],
      list_events |->
          [ method |-> "GET", path |-> << "/scheduled_events" >> ],
      get_event_type |->
          [ method |-> "GET", path |-> << "/event_types/", "{1}" >> ],
      list_user_sevent_types |->
          [ method |-> "GET", path |-> << "/event_types" >> ],
      get_user |->
          [ method |-> "GET", path |-> << "/users/", "{1}" >> ],
      get_current_user |->
          [ method |-> "GET", path |-> << "/users/me" >> ],
      list_organization_invitations |->
          [ method |-> "GET", path |-> << "/organizations/", "{1}", "/invitations" >> ],
      invite_user_to_organization |->
          [ method |-> "POST", path |-> << "/organizations/", "{1}", "/invitations" >> ],
      get_organization_invitation |->
          [ method |-> "GET", path |-> << "/organizations/", "{1}", "/invitations/", "{2}" >> ],
      revoke_user_sorganization_invitation |->
          [ method |-> "DELETE", path |-> << "/organizations/", "{1}", "/invitations/", "{2}" >> ],
      get_organization_membership |->
          [ method |-> "GET", path |-> << "/organization_memberships/", "{1}" >> ],
      remove_user_from_organization |->
          [ method |-> "DELETE", path |-> << "/organization_memberships/", "{1}" >> ],
      list_organization_memberships |->
          [ method |-> "GET", path |-> << "/organization_memberships" >> ],
      get_webhook_subscription |->
          [ method |-> "GET", path |-> << "/webhook_subscriptions/", "{1}" >> ],
      delete_webhook_subscription |->
          [ method |-> "DELETE", path |-> << "/webhook_subscriptions/", "{1}" >> ],
      list_webhook_subscriptions |->
          [ method |-> "GET", path |-> << "/webhook_subscriptions" >> ],
      create_webhook_subscription |->
          [ method |-> "POST", path |-> << "/webhook_subscriptions" >> ],
      create_single_use_scheduling_link |->
          [ method |-> "POST", path |-> << "/scheduling_links" >> ],
      delete_invitee_data |->
          [ method |-> "POST", path |-> << "/data_compliance/deletion/invitees" >> ],
      delete_scheduled_event_data |->
          [ method |-> "POST", path |-> << "/data_compliance/deletion/events" >> ],
      get_invitee_no_show |->
          [ method |-> "GET", path |-> << "/invitee_no_shows/", "{1}" >> ],
      delete_invitee_no_show |->
          [ method |-> "DELETE", path |-> << "/invitee_no_shows/", "{1}" >> ],
      create_invitee_no_show |->
          [ method |-> "POST", path |-> << "/invitee_no_shows" >> ],
      get_group |->
          [ method |-> "GET", path |-> << "/groups/", "{1}" >> ],
      list_groups |->
          [ method |-> "GET", path |-> << "/groups" >> ],
      get_group_relationship |->
          [ method |-> "GET", path |-> << "/group_relationships/", "{1}" >> ],
      list_group_relationships |->
          [ method |-> "GET", path |-> << "/group_relationships" >> ],
      get_routing_form |->
          [ method |-> "GET", path |-> << "/routing_forms/", "{1}" >> ],
      list_routing_forms |->
          [ method |-> "GET", path |-> << "/routing_forms" >> ],
      get_routing_form_submission |->
          [ method |-> "GET", path |-> << "/routing_form_submissions/", "{1}" >> ],
      list_routing_form_submissions |->
          [ method |-> "GET", path |-> << "/routing_form_submissions" >> ],
      list_event_type_available_times |->
          [ method |-> "GET", path |-> << "/event_type_available_times" >> ],
      list_activity_log_entries |->
          [ method |-> "GET", path |-> << "/activity_log_entries" >> ],
      create_share |->
          [ method |-> "POST", path |-> << "/shares" >> ],
      list_user_busy_times |->
          [ method |-> "GET", path |-> << "/user_busy_times" >> ],
      get_user_availability_schedule |->
          [ method |-> "GET", path |-> << "/user_availability_schedules/", "{1}" >> ],
      list_user_availability_schedules |->
          [ method |-> "GET", path |-> << "/user_availability_schedules" >> ],
      list_event_type_hosts |->
          [ method |-> "GET", path |-> << "/event_type_memberships" >> ],
      create_one_off_event_type |->
          [ method |-> "POST", path |-> << "/one_off_event_types" >> ],
      get_sample_webhook_data |->
          [ method |-> "GET", path |-> << "/sample_webhook_data" >> ] ]

\* The text a path element contributes to the URL.
Segment(s, pos) ==
    IF s = "{1}" THEN pos[1][2] ELSE IF s = "{2}" THEN pos[2][2] ELSE s

RECURSIVE Render(_, _)
\* The path with the path parameters pos substituted.
Render(path, pos) ==
    IF path = << >> THEN ""
    ELSE Segment(Head(path), pos) \o Render(Tail(path), pos)

StartsWith(s, prefix) ==
    Len(s) >= Len(prefix) /\ SubSeq(s, 1, Len(prefix)) = prefix

\* C14: after any sequence of calls, successful or failed, the client's base
\* origin is https://api.calendly.com, and the URL of every request issued
\* is that origin followed by the path of the operation that issued it.
C14_FixedOrigin ==
    /\ base_url = "https://api.calendly.com"
    /\ \A c \in Active :
          \A i \in DOMAIN wire[c] :
              StartsWith(wire[c][i].url,
                         "https://api.calendly.com" \o Endpoint[op[c]].path[1])

\* create_webhook_subscription(url=0) has been sent to the webhook
\* endpoint of the origin, and the client's origin is unchanged.
C14_Witness ==
    \E c \in Active :
        /\ op[c] = "create_webhook_subscription"
        /\ args[c].kw["url"] = << "int", "0" >>
        /\ Issued(c) = 1
        /\ wire[c][1].url = "https://api.calendly.com/webhook_subscriptions"
        /\ base_url = "https://api.calendly.com"

\* ---------------------------------------------------------------------- C15
\* C15 as stated: when a DELETE operation is answered with a success status
\* and an empty body, the call returns (an empty result) and does not fail.
C15_DeleteEmptyBodyReturns ==
    \A c \in Answered :
        \A response \in reply[c] :
            ( /\ MethodIs(c, "DELETE")
              /\ Success(response)
              /\ response.text = "" ) => outcome[c].kind = "return"

\* ---------------------------------------------------------------------- C16
IsJson(text) == \E t \in JsonTexts : t[1] = text

\* C16: every operation, the DELETE operations included, decodes the body of
\* every success response; when the body is empty or not JSON the call ends
\* in the decoder's error, and its one request has been issued by then.
C16_AlwaysDecodes ==
    \A c \in Answered :
        \A response \in reply[c] :
            Success(response) =>
                /\ Issued(c) = 1
                /\ IF IsJson(response.text)
                   THEN outcome[c].kind = "return"
                   ELSE outcome[c] = [ kind |-> "JSONDecodeError",
                                       text |-> response.text ]

\* delete_invitee_no_show answered 204 with an empty body ended in the
\* decoder's error after its DELETE was issued.
C16_Witness ==
    \E c \in Answered :
        /\ op[c] = "delete_invitee_no_show"
        /\ reply[c] = { [ status_code |-> 204, text |-> "" ] }
        /\ outcome[c].kind = "JSONDecodeError"
        /\ Issued(c) = 1
        /\ wire[c][1].method = "DELETE"

\* ---------------------------------------------------------------------- C17
\* Everything invocation c holds.
Slot(c) == << pc[c], op[c], args[c], wire[c], reply[c], outcome[c] >>

\* Invocations c and d were called with the same operation and arguments.
SameCall(c, d) ==
    /\ pc[c] # "idle"
    /\ pc[d] # "idle"
    /\ op[c] = op[d]
    /\ args[c] = args[d]

\* C17: under every interleaving of two invocations on one client, a step of
\* one leaves everything the other holds unchanged, and what an invocation
\* issues and how it ends depend on its own arguments and its own transport
\* answer only: two invocations of the same call have issued the same
\* request, and have the same outcome once both have ended on the same answer
\* (so each behaves as in the interleaving in which the other takes no step).
C17_Independent ==
    [][ /\ \A c \in DOMAIN pc :
              Slot(c)' # Slot(c) =>
                  \A d \in DOMAIN pc \ { c } : Slot(d)' = Slot(d)
        /\ \A c, d \in DOMAIN pc :
              SameCall(c, d)' =>
                  /\ wire'[c] = wire'[d]
                  /\ (pc'[c] = "done" /\ pc'[d] = "done" /\ reply'[c] = reply'[d])
                        => outcome'[c] = outcome'[d] ]_vars

\* Two invocations of get_event("abc-123") are inside the transport call at
\* the same time, with the same request.
C17_Witness ==
    /\ DOMAIN pc = { 1, 2 }
    /\ pc[1] = "awaiting"
    /\ pc[2] = "awaiting"
    /\ op[1] = "get_event"
    /\ op[2] = "get_event"
    /\ args[1].pos = << << "str", "abc-123" >> >>
    /\ args[2].pos = << << "str", "abc-123" >> >>
    /\ wire[1] = wire[2]
    /\ Len(wire[1]) = 1

\* ---------------------------------------------------------------------- C18
\* C18: no step changes the client's state (base_url, the only state an
\* operation reads), and a call made after an earlier call of the same
\* operation with equal arguments, whatever happened to the earlier one,
\* issues the identical request (method, URL, query map, body).
C18_Stateless ==
    [][ /\ base_url' = base_url
        /\ \A c \in DOMAIN pc :
              (pc[c] = "idle" /\ pc'[c] # "idle") =>
                  \A d \in DOMAIN pc \ { c } :
                      ( /\ pc[d] # "idle"
                        /\ op[d] = op'[c]
                        /\ args[d] = args'[c] ) => wire'[c] = wire[d] ]_vars

\* delete_invitee_data(emails="") is in flight with the request an
\* earlier call of it, which ended in an HTTP status error, had issued.
C18_Witness ==
    \E c, d \in DOMAIN pc :
        /\ c # d
        /\ pc[d] = "done"
        /\ outcome[d].kind = "HTTPStatusError"
        /\ pc[c] = "awaiting"
        /\ op[c] = "delete_invitee_data"
        /\ op[d] = "delete_invitee_data"
        /\ args[c].kw["emails"] = << "str", "" >>
        /\ args[d] = args[c]
        /\ wire[c] = wire[d]
        /\ Len(wire[c]) = 1

\* ---------------------------------------------------------------------- C19
\* No two operations have the same method and path.
EndpointsDistinct ==
    \A a, b \in DOMAIN Endpoint : a # b => Endpoint[a] # Endpoint[b]

\* C19: each operation targets one fixed (method, path) pair, whatever its
\* arguments, and no two operations target the same pair.
C19_OneEndpointPerOperation ==
    /\ EndpointsDistinct
    /\ \A c \in Active :
          /\ op[c] \in DOMAIN Endpoint
          /\ \A i \in DOMAIN wire[c] :
                /\ wire[c][i].method = Endpoint[op[c]].method
                /\ wire[c][i].url =
                      base_url \o Render(Endpoint[op[c]].path, args[c].pos)

\* revoke_user_sorganization_invitation has sent its DELETE to the path
\* get_organization_invitation reads with GET.
C19_Witness ==
    \E c \in Active :
        /\ op[c] = "revoke_user_sorganization_invitation"
        /\ Issued(c) = 1
        /\ wire[c][1].method = "DELETE"
        /\ wire[c][1].url = "https://api.calendly.com/organizations/abc-123/invitations/0"
        /\ Endpoint["get_organization_invitation"].path = Endpoint[op[c]].path
        /\ Endpoint["get_organization_invitation"].method = "GET"

\* ---------------------------------------------------------------------- C20
\* C20: the stages of a call happen in the order validate, assemble and
\* send, check status, decode, return: a request is sent only from a call
\* that has just started and whose required parameters are all present; a
\* response is taken only by a call whose request has been sent; the body is
\* decoded (a value returned or the decoder failing) only on a response whose
\* status passed the check; and a missing-parameter error ends a call that
\* has sent nothing.
C20_StageOrder ==
    [][ \A c \in DOMAIN pc :
          /\ pc'[c] # pc[c] =>
                << pc[c], pc'[c] >> \in { << "idle", "awaiting" >>, << "idle", "done" >>,
                                          << "awaiting", "done" >>, << "done", "idle" >> }
          /\ Len(wire'[c]) > Len(wire[c]) =>
                /\ pc[c] = "idle"
                /\ \A i \in DOMAIN args'[c].pos : args'[c].pos[i] # None
                /\ reply'[c] = {}
                /\ outcome'[c] = NoOutcome
          /\ (reply'[c] # {} /\ reply[c] = {}) =>
                /\ pc[c] = "awaiting"
                /\ Len(wire[c]) = 1
                /\ wire'[c] = wire[c]
          /\ outcome'[c].kind \in { "return", "JSONDecodeError" } =>
                /\ reply'[c] # {}
                /\ \A response \in reply'[c] : Success(response)
          /\ outcome'[c].kind = "HTTPStatusError" => reply'[c] # {}
          /\ outcome'[c].kind = "ValueError" =>
                /\ wire'[c] = << >>
                /\ reply'[c] = {} ]_vars

\* invite_user_to_organization has gone through every stage and returned.
C20_Witness ==
    \E c \in Answered :
        /\ op[c] = "invite_user_to_organization"
        /\ args[c].pos[1] # None
        /\ Issued(c) = 1
        /\ \E response \in reply[c] : Success(response)
        /\ outcome[c].kind = "return"

\* ---------------------------------------------------------------------- C21
\* C21: when the response has a status outside 200..299 and a body that is
\* empty or not JSON, the call ends in the HTTP status error carrying that
\* response, never in the decoder's error: the body of a non-success
\* response is not decoded.
C21_StatusErrorBeforeDecode ==
    \A c \in Answered :
        \A response \in reply[c] :
            (~Success(response) /\ ~IsJson(response.text)) =>
                /\ outcome[c] = [ kind |-> "HTTPStatusError", response |-> response ]
                /\ outcome[c].kind # "JSONDecodeError"

\* delete_webhook_subscription answered 500 with an empty body ended in the
\* HTTP status error.
C21_Witness ==
    \E c \in Answered :
        /\ op[c] = "delete_webhook_subscription"
        /\ reply[c] = { [ status_code |-> 500, text |-> "" ] }
        /\ outcome[c].kind = "HTTPStatusError"
        /\ outcome[c].response.text = ""

\* ---------------------------------------------------------------------- C22
\* The required (path) parameters of each operation, in the order of its
\* signature, which is the order of its None checks.
Required ==
    [ list_event_invitees                  |-> << "uuid" >>,
      get_event                            |-> << "uuid" >>,
      get_event_invitee                    |-> << "event_uuid", "invitee_uuid" >>,
      list_events                          |-> << >>,
      get_event_type                       |-> << "uuid" >>,
      list_user_sevent_types               |-> << >>,
      get_user                             |-> << "uuid" >>,
      get_current_user                     |-> << >>,
      list_organization_invitations        |-> << "uuid" >>,
      invite_user_to_organization          |-> << "uuid" >>,
      get_organization_invitation          |-> << "org_uuid", "uuid" >>,
      revoke_user_sorganization_invitation |-> << "org_uuid", "uuid" >>,
      get_organization_membership          |-> << "uuid" >>,
      remove_user_from_organization        |-> << "uuid" >>,
      list_organization_memberships        |-> << >>,
      get_webhook_subscription             |-> << "webhook_uuid" >>,
      delete_webhook_subscription          |-> << "webhook_uuid" >>,
      list_webhook_subscriptions           |-> << >>,
      create_webhook_subscription          |-> << >>,
      create_single_use_scheduling_link    |-> << >>,
      delete_invitee_data                  |-> << >>,
      delete_scheduled_event_data          |-> << >>,
      get_invitee_no_show                  |-> << "uuid" >>,
      delete_invitee_no_show               |-> << "uuid" >>,
      create_invitee_no_show               |-> << >>,
      get_group                            |-> << "uuid" >>,
      list_groups                          |-> << >>,
      get_group_relationship               |-> << "uuid" >>,
      list_group_relationships             |-> << >>,
      get_routing_form                     |-> << "uuid" >>,
      list_routing_forms                   |-> << >>,
      get_routing_form_submission          |-> << "uuid" >>,
      list_routing_form_submissions        |-> << >>,
      list_event_type_available_times      |-> << >>,
      list_activity_log_entries            |-> << >>,
      create_share                         |-> << >>,
      list_user_busy_times                 |-> << >>,
      get_user_availability_schedule       |-> << "uuid" >>,
      list_user_availability_schedules     |-> << >>,
      list_event_type_hosts                |-> << >>,
      create_one_off_event_type            |-> << >>,
      get_sample_webhook_data              |-> << >> ]

\* The error a None check raises for the parameter called name.
MissingParameter(name) ==
    ValueError("Missing required parameter '" \o name \o "'")

TwoParameterOps == { o \in DOMAIN Required : Len(Required[o]) = 2 }

\* C22: in get_event_invitee, get_organization_invitation and
\* revoke_user_sorganization_invitation the missing-parameter error names a
\* parameter that is absent: the first one whenever the first is None
\* (whatever the second is), the second one only when the first is present
\* and the second is None.
C22_NamesFirstAbsent ==
    /\ TwoParameterOps = { "get_event_invitee", "get_organization_invitation",
                           "revoke_user_sorganization_invitation" }
    /\ \A c \in Ended :
          op[c] \in TwoParameterOps =>
              LET p == args[c].pos
                  n == Required[op[c]]
              IN  /\ p[1] = None => outcome[c] = MissingParameter(n[1])
                  /\ (p[1] # None /\ p[2] = None) =>
                         outcome[c] = MissingParameter(n[2])
                  /\ outcome[c].kind = "ValueError" =>
                         \E i \in 1..2 : /\ p[i] = None
                                          /\ outcome[c] = MissingParameter(n[i])

\* get_organization_invitation(None, None) ended in the error naming
\* org_uuid.
C22_Witness ==
    \E c \in Ended :
        /\ op[c] = "get_organization_invitation"
        /\ args[c].pos = << None, None >>
        /\ outcome[c] = [ kind |-> "ValueError",
                          msg |-> "Missing required parameter 'org_uuid'" ]
        /\ Issued(c) = 0

\* ---------------------------------------------------------------------- C23
\* C23: with both path parameters present, each value fills its own place
\* in the path: get_event_invitee(a, b) targets /scheduled_events/a/invitees/b,
\* get_organization_invitation(a, b) and
\* revoke_user_sorganization_invitation(a, b) target
\* /organizations/a/invitations/b.
C23_NoSwap ==
    \A c \in Active :
        \A i \in DOMAIN wire[c] :
            LET a == Str(args[c].pos[1])
                b == Str(args[c].pos[2])
            IN  /\ op[c] = "get_event_invitee" =>
                      wire[c][i].url = "https://api.calendly.com/scheduled_events/"
                                          \o a \o "/invitees/" \o b
                /\ op[c] \in { "get_organization_invitation",
                                "revoke_user_sorganization_invitation" } =>
                      wire[c][i].url = "https://api.calendly.com/organizations/"
                                          \o a \o "/invitations/" \o b

\* get_event_invitee("abc-123", 0) has been sent.
C23_Witness ==
    \E c \in Active :
        /\ op[c] = "get_event_invitee"
        /\ args[c].pos = << << "str", "abc-123" >>, << "int", "0" >> >>
        /\ Issued(c) = 1
        /\ wire[c][1].url = "https://api.calendly.com/scheduled_events/abc-123/invitees/0"

\* ---------------------------------------------------------------------- C24
\* The operations that send through self._post.
PostOps == { o \in DOMAIN Endpoint : Endpoint[o].method = "POST" }

\* The optional arguments the caller of c supplied, by name.
Given(c) ==
    [ k \in { x \in DOMAIN args[c].kw : args[c].kw[x] # None } |-> args[c].kw[k] ]

\* C24: a POST operation carries the supplied optional fields in the request
\* body only, and its query map is empty; a GET or DELETE operation has no
\* body and carries the supplied optional parameters in the query map only.
C24_BodyOrQuery ==
    \A c \in Active :
        \A i \in DOMAIN wire[c] :
            IF op[c] \in PostOps
            THEN /\ wire[c][i].method = "POST"
                 /\ wire[c][i].body = { Given(c) }
                 /\ QueryKeys(wire[c][i]) = {}
            ELSE /\ wire[c][i].method \in { "GET", "DELETE" }
                 /\ wire[c][i].body = {}
                 /\ wire[c][i].params = Given(c)

\* create_share(duration=0, name="") has been sent with both fields in the
\* body and nothing in the query.
C24_Witness ==
    \E c \in Active :
        /\ op[c] = "create_share"
        /\ Issued(c) = 1
        /\ Given(c) = [ duration |-> << "int", "0" >>, name |-> << "str", "" >> ]
        /\ wire[c][1].body = { Given(c) }
        /\ wire[c][1].params = << >>

\* ---------------------------------------------------------------------- C25
\* C25: the request an operation issues has that operation's method and
\* path template whatever the arguments that passed the None checks; the
\* arguments decide only what fills the path and which query and body
\* entries are present (each entry carrying the argument of its name); and a
\* call stays in the operation it entered and issues nothing further, so no
\* operation runs another one.
C25_ArgumentsFillOnly ==
    [][ \A c \in DOMAIN pc :
          /\ (pc[c] # "idle" /\ pc'[c] # "idle") =>
                /\ op'[c] = op[c]
                /\ args'[c] = args[c]
                /\ wire'[c] = wire[c]
          /\ Len(wire'[c]) > Len(wire[c]) =>
                LET r == wire'[c][Len(wire'[c])]
                IN  /\ wire[c] = << >>
                    /\ Len(wire'[c]) = 1
                    /\ r.method = Endpoint[op'[c]].method
                    /\ r.url = base_url \o Render(Endpoint[op'[c]].path, args'[c].pos)
                    /\ \A k \in QueryKeys(r) : r.params[k] = args'[c].kw[k]
                    /\ \A body \in r.body :
                          \A k \in DOMAIN body : body[k] = args'[c].kw[k] ]_vars

\* get_user("") has been sent as a GET to /users/ followed by the empty
\* identifier, not to the path of get_current_user.
C25_Witness ==
    \E c \in Active :
        /\ op[c] = "get_user"
        /\ args[c].pos = << << "str", "" >> >>
        /\ Issued(c) = 1
        /\ wire[c][1].method = "GET"
        /\ wire[c][1].url = "https://api.calendly.com/users/"
        /\ wire[c][1].url # "https://api.calendly.com" \o Render(Endpoint["get_current_user"].path, << >>)

NoRequiredOps == { o \in DOMAIN Required : Required[o] = << >> }

ListOps == { o \in ReadOps : StartsWith(o, "list_") }

\* C27: the operations without required parameters are the list operations
\* other than list_event_invitees and list_organization_invitations,
\* get_current_user, get_sample_webhook_data and the create and
\* data-deletion POST operations other than invite_user_to_organization; a
\* call of one of them never ends in the missing-parameter error and issues
\* exactly one request, and with every optional parameter None that request
\* has an empty query map and, for POST, the empty map as its body.
C27_NoRequiredNeverRejected ==
    /\ NoRequiredOps =
          (ListOps \ { "list_event_invitees", "list_organization_invitations" })
             \cup { "get_current_user", "get_sample_webhook_data" }
             \cup ((CreateOps \cup DeletionRequestOps) \ { "invite_user_to_organization" })
    /\ \A c \in Active :
          op[c] \in NoRequiredOps =>
              /\ outcome[c].kind # "ValueError"
              /\ Issued(c) = 1
              /\ (\A k \in DOMAIN args[c].kw : args[c].kw[k] = None) =>
                    /\ wire[c][1].params = << >>
                    /\ IF op[c] \in PostOps
                       THEN wire[c][1].method = "POST" /\ wire[c][1].body = { << >> }
                       ELSE wire[c][1].method = "GET" /\ wire[c][1].body = {}

\* delete_invitee_data() with emails left None has been sent as a POST with
\* the empty map as its body.
C27_Witness ==
    \E c \in Active :
        /\ op[c] = "delete_invitee_data"
        /\ args[c].kw["emails"] = None
        /\ Issued(c) = 1
        /\ wire[c][1].method = "POST"
        /\ wire[c][1].body = { << >> }
        /\ wire[c][1].params = << >>

\* ---------------------------------------------------------------------- C28
\* C28: create_webhook_subscription sends to
\* https://api.calendly.com/webhook_subscriptions whatever its url argument
\* is, and the "url" entry of the body is the caller's value when one was
\* given and is missing when url was None: the body is assembled before the
\* local name url is rebound to the endpoint address.
C28_UrlArgumentAndTarget ==
    \A c \in Active :
        op[c] = "create_webhook_subscription" =>
            \A i \in DOMAIN wire[c] :
                /\ wire[c][i].url = "https://api.calendly.com/webhook_subscriptions"
                /\ wire[c][i].body # {}
                /\ \A body \in wire[c][i].body :
                      IF args[c].kw["url"] = None
                      THEN "url" \notin DOMAIN body
                      ELSE /\ "url" \in DOMAIN body
                           /\ body["url"] = args[c].kw["url"]

\* create_webhook_subscription(url="", scope=False) has been sent to the
\* endpoint with the caller's url in the body.
C28_Witness ==
    \E c \in Active :
        /\ op[c] = "create_webhook_subscription"
        /\ Issued(c) = 1
        /\ wire[c][1].url = "https://api.calendly.com/webhook_subscriptions"
        /\ wire[c][1].body = { [ url |-> << "str", "" >>,
                                 scope |-> << "bool", "False" >> ] }

\* ---------------------------------------------------------------------- C29
\* The names a returned list holds.
Range(s) == { s[i] : i \in DOMAIN s }

\* C29: list_tools issues no HTTP request and, after any sequence of calls,
\* returns the same list: each of the 42 endpoint operations of the client
\* exactly once, and not list_tools itself.
C29_ListToolsIsCatalog ==
    \A c \in Active :
        op[c] = "list_tools" =>
            /\ pc[c] = "done"
            /\ Issued(c) = 0
            /\ reply[c] = {}
            /\ outcome[c].kind = "return"
            /\ Len(outcome[c].value) = 42
            /\ Range(outcome[c].value) = DOMAIN Required
            /\ \A i, j \in DOMAIN outcome[c].value :
                  i # j => outcome[c].value[i] # outcome[c].value[j]
            /\ "list_tools" \notin Range(outcome[c].value)

\* list_tools has returned a list of 42 names that begins with
\* list_event_invitees and ends with get_sample_webhook_data.
C29_Witness ==
    \E c \in Ended :
        /\ op[c] = "list_tools"
        /\ outcome[c].kind = "return"
        /\ Len(outcome[c].value) = 42
        /\ outcome[c].value[1] = "list_event_invitees"
        /\ outcome[c].value[42] = "get_sample_webhook_data"
        /\ wire[c] = << >>

====
